---- MODULE Spec2Model ----
(***************************************************************************)
(* A model of src/app.py: the ExcelConsolidator class (keyword filtering,  *)
(* consolidation, cleaning, deduplication, insight generation) and the     *)
(* part of main() that drives it.                                          *)
(*                                                                         *)
(* Strings are sequences of one-character strings, so that lower(),        *)
(* strip(), replace(), the substring test `term in col` and the regular    *)
(* expression search of Series.str.contains are computed, not assumed.     *)
(* A DataFrame is a record [cols, rows]: cols is the sequence of column    *)
(* labels (labels may repeat, as in pandas) and every row is a sequence of *)
(* cells aligned with cols.                                                *)
(***************************************************************************)
EXTENDS Integers, Sequences, FiniteSets, TLC

(***************************************************************************)
(* Bounds of the model.                                                    *)
(***************************************************************************)
MaxFiles == 2
MaxCalls == 2

(***************************************************************************)
(* Characters and the str methods used by the code.                        *)
(***************************************************************************)
UpperChars == <<"A","B","C","D","E","F","G","H","I","J","K","L","M",
                "N","O","P","Q","R","S","T","U","V","W","X","Y","Z">>
LowerChars == <<"a","b","c","d","e","f","g","h","i","j","k","l","m",
                "n","o","p","q","r","s","t","u","v","w","x","y","z">>
DigitChars == <<"0","1","2","3","4","5","6","7","8","9">>
Whitespace == {" ", "\t"}

IsUpper(c) == \E i \in DOMAIN UpperChars : UpperChars[i] = c

lower_char(c) ==
    IF IsUpper(c)
    THEN LowerChars[CHOOSE i \in DOMAIN UpperChars : UpperChars[i] = c]
    ELSE c

\* str.lower()
lower(s) == [i \in DOMAIN s |-> lower_char(s[i])]

RECURSIVE lstrip(_)
lstrip(s) == IF s # <<>> /\ Head(s) \in Whitespace THEN lstrip(Tail(s)) ELSE s

RECURSIVE rstrip(_)
rstrip(s) ==
    IF s # <<>> /\ s[Len(s)] \in Whitespace
    THEN rstrip(SubSeq(s, 1, Len(s) - 1))
    ELSE s

\* str.strip()
strip(s) == rstrip(lstrip(s))

\* str.replace(" ", "_")
replace_space(s) == [i \in DOMAIN s |-> IF s[i] = " " THEN "_" ELSE s[i]]

\* `term in col`: term occurs in col as a contiguous substring
Contains(col, term) ==
    \E p \in 0 .. (Len(col) - Len(term)) :
        \A i \in DOMAIN term : col[p + i] = term[i]

RECURSIVE Join(_, _)
\* sep.join(parts)
Join(parts, sep) ==
    IF parts = <<>> THEN <<>>
    ELSE IF Len(parts) = 1 THEN parts[1]
    ELSE parts[1] \o sep \o Join(Tail(parts), sep)

RECURSIVE Split(_, _)
\* the alternatives of a regular expression: the pattern cut at every "|"
Split(pat, bar) ==
    IF \E i \in DOMAIN pat : pat[i] = bar
    THEN LET k == CHOOSE i \in DOMAIN pat :
                      pat[i] = bar /\ \A j \in 1 .. (i - 1) : pat[j] # bar
         IN <<SubSeq(pat, 1, k - 1)>> \o Split(SubSeq(pat, k + 1, Len(pat)), bar)
    ELSE <<pat>>

\* one alternative matches text at offset p; "." matches any character, every
\* other character of the model's alphabet matches itself, ignoring case
AltMatchesAt(alt, text, p) ==
    \A i \in DOMAIN alt :
        \/ alt[i] = "."
        \/ lower_char(alt[i]) = lower_char(text[p + i])

\* re.search(pat, text, re.IGNORECASE) for patterns built from literals,
\* "." and "|" (the only metacharacters in the model's alphabet)
re_search(pat, text) ==
    LET alts == Split(pat, "|")
    IN \E a \in DOMAIN alts :
           \E p \in 0 .. (Len(text) - Len(alts[a])) : AltMatchesAt(alts[a], text, p)

(***************************************************************************)
(* Cells.  A cell is a number, a text or NaN (an empty cell).              *)
(***************************************************************************)
NaN == [t |-> "nan", n |-> 0, s |-> <<>>]
Num(n) == [t |-> "num", n |-> n, s |-> <<>>]
Txt(s) == [t |-> "str", n |-> 0, s |-> s]

RECURSIVE Digits(_)
Digits(n) ==
    IF n < Len(DigitChars) THEN <<DigitChars[n + 1]>>
    ELSE Digits(n \div Len(DigitChars)) \o <<DigitChars[(n % Len(DigitChars)) + 1]>>

\* str(cell), as row.astype(str) computes it
cell_str(c) ==
    IF c.t = "nan" THEN <<"n", "a", "n">>
    ELSE IF c.t = "num" THEN Digits(c.n)
    ELSE c.s

(***************************************************************************)
(* DataFrames.                                                             *)
(***************************************************************************)
EmptyFrame == [cols |-> <<>>, rows |-> <<>>]

ColSet(df) == {df.cols[i] : i \in DOMAIN df.cols}

HasCol(df, name) == name \in ColSet(df)

IsUnique(cols) == \A i, j \in DOMAIN cols : cols[i] = cols[j] => i = j

\* DataFrame.empty: some axis has length 0
IsEmpty(df) == Len(df.cols) = 0 \/ Len(df.rows) = 0

RECURSIVE PositionsFrom(_, _, _)
PositionsFrom(cols, name, i) ==
    IF i > Len(cols) THEN <<>>
    ELSE (IF cols[i] = name THEN <<i>> ELSE <<>>) \o PositionsFrom(cols, name, i + 1)

RECURSIVE Locate(_, _)
\* the positions df[labels] selects: for each label, in order, every column
\* of that name (a repeated name selects all of its columns again)
Locate(cols, labels) ==
    IF labels = <<>> THEN <<>>
    ELSE PositionsFrom(cols, Head(labels), 1) \o Locate(cols, Tail(labels))

\* df[labels]
getitem(df, labels) ==
    LET pos == Locate(df.cols, labels)
    IN [cols |-> [k \in DOMAIN pos |-> df.cols[pos[k]]],
        rows |-> [r \in DOMAIN df.rows |->
                     [k \in DOMAIN pos |-> df.rows[r][pos[k]]]]]

\* df[name] = value (a scalar): overwrite the column, or append it
setitem(df, name, value) ==
    IF HasCol(df, name)
    THEN [df EXCEPT !.rows =
             [r \in DOMAIN df.rows |->
                 [k \in DOMAIN df.cols |->
                     IF df.cols[k] = name THEN value ELSE df.rows[r][k]]]]
    ELSE [cols |-> Append(df.cols, name),
          rows |-> [r \in DOMAIN df.rows |-> Append(df.rows[r], value)]]

RECURSIVE NewLabels(_, _)
NewLabels(seen, cols) ==
    IF cols = <<>> THEN <<>>
    ELSE IF \E i \in DOMAIN seen : seen[i] = Head(cols)
         THEN NewLabels(seen, Tail(cols))
         ELSE <<Head(cols)>> \o NewLabels(Append(seen, Head(cols)), Tail(cols))

\* reindex the columns of a frame with unique labels
Reindex(df, labels) ==
    [cols |-> labels,
     rows |-> [r \in DOMAIN df.rows |->
                  [k \in DOMAIN labels |->
                      IF HasCol(df, labels[k])
                      THEN df.rows[r][CHOOSE i \in DOMAIN df.cols : df.cols[i] = labels[k]]
                      ELSE NaN]]]

\* pd.concat([a, b], ignore_index=True).  A frame of shape (0, 0) is left
\* out; frames with equal column indexes are stacked; otherwise the columns
\* are united in order of first appearance and both frames reindexed, which
\* raises InvalidIndexError when a frame has a repeated label.
concat(a, b) ==
    IF a = EmptyFrame THEN [ok |-> TRUE, df |-> b]
    ELSE IF b = EmptyFrame THEN [ok |-> TRUE, df |-> a]
    ELSE IF a.cols = b.cols
         THEN [ok |-> TRUE, df |-> [cols |-> a.cols, rows |-> a.rows \o b.rows]]
    ELSE IF ~IsUnique(a.cols) \/ ~IsUnique(b.cols)
         THEN [ok |-> FALSE, df |-> a]
    ELSE LET labels == a.cols \o NewLabels(a.cols, b.cols)
         IN [ok |-> TRUE,
             df |-> [cols |-> labels,
                     rows |-> Reindex(a, labels).rows \o Reindex(b, labels).rows]]

(***************************************************************************)
(* ExcelConsolidator.                                                      *)
(***************************************************************************)
n_source_file == <<"s","o","u","r","c","e","_","f","i","l","e">>
n_sheet_name == <<"s","h","e","e","t","_","n","a","m","e">>
n_revenue == <<"r","e","v","e","n","u","e">>
n_aum == <<"a","u","m">>
n_performance == <<"p","e","r","f","o","r","m","a","n","c","e">>
n_jurisdiction == <<"j","u","r","i","s","d","i","c","t","i","o","n">>
n_call_x == <<"c","a","l","l","_","(","x",")">>
n_client_name == <<"c","l","i","e","n","t","_","n","a","m","e">>

\* __init__: self.keywords
init_keywords(kws) == [i \in DOMAIN kws |-> replace_space(strip(lower(kws[i])))]

\* smart_search, line 36: the column names it assigns to df.columns
search_columns(cols) == [i \in DOMAIN cols |-> replace_space(strip(lower(cols[i])))]

\* clean_and_standardize, line 55
clean_columns(cols) == [i \in DOMAIN cols |-> replace_space(lower(strip(cols[i])))]

\* the frame df is after smart_search(df) returned: smart_search renames the
\* columns of its argument in place unless there are no keywords
searched_df(df, keywords) ==
    IF keywords = <<>> THEN df ELSE [df EXCEPT !.cols = search_columns(df.cols)]

\* line 37
matched_cols(d, keywords) ==
    LET hit(col) == \E t \in DOMAIN keywords : Contains(col, keywords[t])
    IN SelectSeq(d.cols, hit)

\* line 39: one entry of text_match
text_match(row, keywords) ==
    LET pat == Join(keywords, <<"|">>)
    IN \E j \in DOMAIN row : re_search(pat, cell_str(row[j]))

\* line 40
matched_rows(d, keywords) ==
    LET hit(row) == text_match(row, keywords)
    IN [d EXCEPT !.rows = SelectSeq(d.rows, hit)]

\* lines 43-45
cols_to_return(d, keywords) ==
    matched_cols(d, keywords)
        \o (IF HasCol(d, n_source_file) THEN <<n_source_file>> ELSE <<>>)
        \o (IF HasCol(d, n_sheet_name) THEN <<n_sheet_name>> ELSE <<>>)

\* smart_search, lines 36-51: the frame it returns when it filters
filter_by_keywords(df, keywords) ==
    LET d == [df EXCEPT !.cols = search_columns(df.cols)]
        mr == matched_rows(d, keywords)
        cols == cols_to_return(d, keywords)
    IN IF matched_cols(d, keywords) # <<>>
       THEN IF IsEmpty(mr) THEN getitem(d, cols) ELSE getitem(mr, cols)
       ELSE IF ~IsEmpty(mr) THEN mr ELSE d

\* smart_search without the early return of lines 33-34
smart_search_unguarded(df, keywords) == filter_by_keywords(df, keywords)

\* smart_search: the frame it returns
smart_search(df, keywords) ==
    IF keywords = <<>> THEN df ELSE filter_by_keywords(df, keywords)

\* lines 21-23: the parsed sheet, tagged
tagged(file, sheet) ==
    setitem(setitem([cols |-> sheet.header, rows |-> sheet.rows],
                    n_source_file, Txt(file.name)),
            n_sheet_name, Txt(sheet.name))

\* lines 24-28 without the else branch: the result of smart_search is
\* appended whether or not it is empty
contribution_result_only(df, keywords) == smart_search(df, keywords)

\* lines 24-28: the frame appended for one sheet
contribution(df, keywords) ==
    LET filtered_df == smart_search(df, keywords)
    IN IF ~IsEmpty(filtered_df) THEN filtered_df ELSE searched_df(df, keywords)

\* dropna(how='all')
dropna_all(df) ==
    LET keep(row) == \E k \in DOMAIN row : row[k] # NaN
    IN [df EXCEPT !.rows = SelectSeq(df.rows, keep)]

\* clean_and_standardize
clean_and_standardize(df) ==
    [cols |-> clean_columns(df.cols), rows |-> dropna_all(df).rows]

RECURSIVE FirstOccurrences(_, _)
FirstOccurrences(seen, rows) ==
    IF rows = <<>> THEN <<>>
    ELSE IF \E i \in DOMAIN seen : seen[i] = Head(rows)
         THEN FirstOccurrences(seen, Tail(rows))
         ELSE <<Head(rows)>> \o FirstOccurrences(Append(seen, Head(rows)), Tail(rows))

\* deduplicate with drop_duplicates() left out
deduplicate_keeps_all(df) == df

\* deduplicate: drop_duplicates() keeps the first of equal rows
deduplicate(df) == [df EXCEPT !.rows = FirstOccurrences(<<>>, df.rows)]

(***************************************************************************)
(* generate_insights.  Its result is [status, insights, summary]: status   *)
(* is "ok" when the method returns and otherwise names the exception that  *)
(* leaves it; an entry of the lists is [kind, num, den, cells].            *)
(***************************************************************************)
Entry(kind, num, den, cells) == [kind |-> kind, num |-> num, den |-> den, cells |-> cells]

Raise(acc, exc) == [acc EXCEPT !.status = exc]

Positions(df, name) == PositionsFrom(df.cols, name, 1)

\* the cells of the column at position p
ColumnAt(df, p) == [r \in DOMAIN df.rows |-> df.rows[r][p]]

\* the cells of the (first) column of that name
Column(df, name) == ColumnAt(df, Positions(df, name)[1])

\* df[name]: one column for each position that carries the label
Columns(df, name) ==
    [k \in DOMAIN Positions(df, name) |-> ColumnAt(df, Positions(df, name)[k])]

RECURSIVE NumSum(_)
\* Series.sum(): NaN is skipped
NumSum(cells) ==
    IF cells = <<>> THEN 0
    ELSE (IF Head(cells).t = "num" THEN Head(cells).n ELSE 0) + NumSum(Tail(cells))

\* Series.count(): the cells that are not NaN
NumCount(cells) == Cardinality({i \in DOMAIN cells : cells[i] # NaN})

HasText(cells) == \E i \in DOMAIN cells : cells[i].t = "str"

\* every cell is a text, and there is one
AllText(cells) == cells # <<>> /\ \A i \in DOMAIN cells : cells[i].t = "str"

RECURSIVE TextSum(_)
\* Series.sum() of a column of texts: their concatenation
TextSum(cells) == IF cells = <<>> THEN <<>> ELSE Head(cells).s \o TextSum(Tail(cells))

\* texts among numbers or NaN: sum() of the column raises TypeError
MixedText(cells) == HasText(cells) /\ ~AllText(cells)

\* sum() of one column that does not raise
ColumnSum(cells) == IF AllText(cells) THEN Txt(TextSum(cells)) ELSE Num(NumSum(cells))

\* the rows sort_values(by=name, ascending=False).head(1) can yield (NaN sorts
\* last; the sort is quicksort, so equal keys come in no promised order);
\* 0 stands for the empty selection
TopRows(df, name) ==
    IF ~HasCol(df, name) \/ df.rows = <<>> THEN {0}
    ELSE LET col == Column(df, name)
             nums == {i \in DOMAIN col : col[i].t = "num"}
         IN IF nums = {} THEN DOMAIN col
            ELSE {i \in nums : \A j \in nums : col[j].n <= col[i].n}

\* lines 70-79
revenue_block(acc, df, top) ==
    IF acc.status # "ok" \/ ~HasCol(df, n_revenue) THEN acc
    \* texts among numbers or NaN: sum() raises TypeError (line 71); texts
    \* only: sum() concatenates them and mean() raises TypeError (line 72);
    \* with a repeated label both run over every column of that name
    ELSE IF \E k \in DOMAIN Columns(df, n_revenue) : HasText(Columns(df, n_revenue)[k])
         THEN Raise(acc, "TypeError")
    \* repeated label: sort_values raises ValueError (line 73)
    ELSE IF Len(Positions(df, n_revenue)) > 1 THEN Raise(acc, "ValueError")
    ELSE LET col == Column(df, n_revenue)
             ins == acc.insights
                        \o <<Entry("total_revenue", NumSum(col), 1, <<>>),
                             Entry("avg_revenue", NumSum(col), NumCount(col), <<>>)>>
         IN IF HasCol(df, n_client_name)
            THEN IF top = 0 THEN Raise([acc EXCEPT !.insights = ins], "IndexError")
                 ELSE LET top_client == getitem(df, <<n_client_name>>).rows[top]
                      IN [status |-> "ok",
                          insights |-> Append(ins, Entry("top_client", 0, 1, top_client)),
                          summary |-> Append(acc.summary,
                                             Entry("revenue", NumSum(col), NumCount(col), top_client))]
            \* top_client is not bound: line 79 raises NameError
            ELSE Raise([acc EXCEPT !.insights = ins], "NameError")

\* lines 81-88
aum_block(acc, df, top) ==
    IF acc.status # "ok" \/ ~HasCol(df, n_aum) THEN acc
    \* texts among numbers or NaN in a column of that name: sum() raises
    \* TypeError (line 82)
    ELSE IF \E k \in DOMAIN Columns(df, n_aum) : MixedText(Columns(df, n_aum)[k])
         THEN Raise(acc, "TypeError")
    \* repeated label: sort_values raises ValueError (line 83)
    ELSE IF Len(Positions(df, n_aum)) > 1 THEN Raise(acc, "ValueError")
    \* texts only: sum() concatenates them and the format ',.2f' of line 84
    \* raises ValueError
    ELSE IF AllText(Column(df, n_aum)) THEN Raise(acc, "ValueError")
    ELSE LET col == Column(df, n_aum)
             ins == Append(acc.insights, Entry("total_aum", NumSum(col), 1, <<>>))
         IN IF HasCol(df, n_client_name)
            THEN IF top = 0 THEN Raise([acc EXCEPT !.insights = ins], "IndexError")
                 ELSE LET top_holder == getitem(df, <<n_client_name>>).rows[top]
                      IN [status |-> "ok",
                          insights |-> Append(ins, Entry("top_holder", 0, 1, top_holder)),
                          summary |-> Append(acc.summary,
                                             Entry("aum", NumSum(col), 1, top_holder))]
            \* top_holder is not bound: line 88 raises NameError
            ELSE Raise([acc EXCEPT !.insights = ins], "NameError")

\* the rows value_counts() counts: those with no NaN under that name
Counted(df, name) ==
    LET sub == getitem(df, <<name>>)
    IN {r \in DOMAIN sub.rows : \A k \in DOMAIN sub.rows[r] : sub.rows[r][k] # NaN}

\* the largest count value_counts() reports
MaxCount(df, name) ==
    LET sub == getitem(df, <<name>>)
        n(r) == Cardinality({q \in Counted(df, name) : sub.rows[q] = sub.rows[r]})
    IN CHOOSE m \in 1 .. Len(df.rows) :
           /\ \E r \in Counted(df, name) : n(r) = m
           /\ \A r \in Counted(df, name) : n(r) <= m

\* lines 90-94: max() of an empty dict raises ValueError
performance_block(acc, df) ==
    IF acc.status # "ok" \/ ~HasCol(df, n_performance) THEN acc
    \* repeated label: value_counts() of the DataFrame groups by a label that
    \* is not one column and raises ValueError (line 91)
    ELSE IF Len(Positions(df, n_performance)) > 1 THEN Raise(acc, "ValueError")
    ELSE LET ins == Append(acc.insights,
                           Entry("performance", Cardinality(Counted(df, n_performance)), 1, <<>>))
         IN IF Counted(df, n_performance) = {}
            THEN Raise([acc EXCEPT !.insights = ins], "ValueError")
            ELSE [status |-> "ok", insights |-> ins,
                  summary |-> Append(acc.summary,
                                     Entry("performance", MaxCount(df, n_performance), 1, <<>>))]

\* lines 96-100: idxmax() of an empty Series raises ValueError
jurisdiction_block(acc, df) ==
    IF acc.status # "ok" \/ ~HasCol(df, n_jurisdiction) THEN acc
    \* repeated label: value_counts() raises ValueError as at line 91 (line 97)
    ELSE IF Len(Positions(df, n_jurisdiction)) > 1 THEN Raise(acc, "ValueError")
    ELSE IF Counted(df, n_jurisdiction) = {} THEN Raise(acc, "ValueError")
    ELSE [status |-> "ok",
          insights |-> Append(acc.insights,
                              Entry("jurisdiction", MaxCount(df, n_jurisdiction), 1, <<>>)),
          summary |-> Append(acc.summary,
                             Entry("jurisdiction", MaxCount(df, n_jurisdiction), 1, <<>>))]

\* lines 102-105
calls_block(acc, df) ==
    IF acc.status # "ok" \/ ~HasCol(df, n_call_x) THEN acc
    ELSE LET cols == Columns(df, n_call_x)
             \* repeated label: sum() gives one total for each column
             totals == [k \in DOMAIN cols |-> ColumnSum(cols[k])]
         IN \* texts among numbers or NaN: sum() raises TypeError (line 103)
            IF \E k \in DOMAIN cols : MixedText(cols[k]) THEN Raise(acc, "TypeError")
            \* lines 104-105 format the totals of a repeated label, or the
            \* concatenation sum() makes of a column of texts
            ELSE IF Len(cols) > 1 \/ AllText(cols[1])
                 THEN [status |-> "ok",
                       insights |-> Append(acc.insights, Entry("total_calls", 0, 1, totals)),
                       summary |-> Append(acc.summary, Entry("total_calls", 0, 1, totals))]
            ELSE [status |-> "ok",
                  insights |-> Append(acc.insights,
                                      Entry("total_calls", NumSum(cols[1]), 1, <<>>)),
                  summary |-> Append(acc.summary,
                                     Entry("total_calls", NumSum(cols[1]), 1, <<>>))]

\* generate_insights on self.combined_df; top_rev and top_aum are the rows the
\* two sorts put first
generate_insights(df, top_rev, top_aum) ==
    calls_block(
        jurisdiction_block(
            performance_block(
                aum_block(
                    revenue_block([status |-> "ok", insights |-> <<>>, summary |-> <<>>],
                                  df, top_rev),
                    df, top_aum),
                df),
            df),
        df)

(***************************************************************************)
(* The inputs of a run: workbooks and keyword lists.  A workbook is        *)
(* [name, opens, sheets]; pd.ExcelFile raises when opens is FALSE.  A      *)
(* sheet is [name, parses, header, rows]; xls.parse raises when parses is  *)
(* FALSE.  Headers are distinct within a sheet, and a numeric column holds *)
(* numbers only.                                                           *)
(***************************************************************************)
h_Revenue == <<"R","e","v","e","n","u","e">>
h_revenue_sp == <<"r","e","v","e","n","u","e"," ">>
h_Client_Name == <<"C","l","i","e","n","t"," ","N","a","m","e">>
h_notes == <<"n","o","t","e","s">>
h_AUM == <<"A","U","M">>
h_Performance == <<"P","e","r","f","o","r","m","a","n","c","e">>
h_Jurisdiction == <<"J","u","r","i","s","d","i","c","t","i","o","n">>
h_Call_x == <<"C","a","l","l"," ","(","x",")">>

t_Acme == Txt(<<"A","c","m","e"," ","I","n","c",".">>)
t_Income == Txt(<<"I","n","c","o","m","e"," ","C","o">>)
t_Bolt == Txt(<<"B","o","l","t">>)
t_ok == Txt(<<"o","k">>)
t_est == Txt(<<"r","e","v","e","n","u","e"," ","e","s","t">>)
t_good == Txt(<<"g","o","o","d">>)
t_poor == Txt(<<"p","o","o","r">>)
t_UK == Txt(<<"U","K">>)
t_FR == Txt(<<"F","R">>)

Sheet(name, parses, header, rows) ==
    [name |-> name, parses |-> parses, header |-> header, rows |-> rows]

s_Q1 == <<"Q","1">>
s_Q2 == <<"Q","2">>

\* two clients, one row repeated
Sh_clients ==
    Sheet(s_Q1, TRUE, <<h_Revenue, h_Client_Name>>,
          <<<<Num(100), t_Acme>>, <<Num(300), t_Bolt>>, <<Num(100), t_Acme>>>>)

Sh_income ==
    Sheet(s_Q1, TRUE, <<h_Revenue, h_Client_Name, h_notes>>,
          <<<<Num(100), t_Income, t_ok>>, <<Num(300), t_Bolt, t_ok>>>>)

\* a header row and nothing under it
Sh_header_only == Sheet(s_Q2, TRUE, <<h_Revenue, h_Client_Name, h_notes>>, <<>>)

\* no client column
Sh_aum ==
    Sheet(s_Q1, TRUE, <<h_AUM, h_notes>>,
          <<<<Num(500), t_ok>>, <<Num(700), t_est>>>>)

Sh_broken == Sheet(s_Q2, FALSE, <<>>, <<>>)

Sh_perf ==
    Sheet(s_Q1, TRUE, <<h_Performance, h_Jurisdiction, h_Call_x>>,
          <<<<t_good, t_UK, Num(3)>>, <<t_poor, t_UK, Num(4)>>, <<t_good, t_FR, Num(5)>>>>)

\* a sheet with an empty row between two equal rows
Sh_notes == Sheet(s_Q2, TRUE, <<h_notes>>, <<<<t_ok>>, <<NaN>>, <<t_ok>>>>)

\* two headers that differ only in case and a trailing space
Sh_twice ==
    Sheet(s_Q1, TRUE, <<h_Revenue, h_revenue_sp>>, <<<<Num(100), Num(200)>>>>)

Workbook(name, opens, sheets) == [name |-> name, opens |-> opens, sheets |-> sheets]

Workbooks ==
    << Workbook(<<"a",".","x","l","s","x">>, TRUE, <<Sh_clients>>),
      Workbook(<<"b",".","x","l","s","x">>, TRUE, <<Sh_income>>),
      Workbook(<<"c",".","x","l","s","x">>, FALSE, <<>>),
      Workbook(<<"d",".","x","l","s","x">>, TRUE, <<Sh_aum, Sh_broken>>),
      Workbook(<<"e",".","x","l","s","x">>, TRUE, <<Sh_perf, Sh_notes>>),
      Workbook(<<"f",".","x","l","s","x">>, TRUE, <<Sh_twice>>),
      Workbook(<<"g",".","x","l","s","x">>, TRUE, <<Sh_header_only>>) >>

\* keyword lists as passed to ExcelConsolidator: none; some of main's default; a part of the name
\* source_file; one that occurs nowhere; two with a "."
KeywordLists ==
    { <<>>,
      <<<<"R","e","v","e","n","u","e">>, <<" ","C","l","i","e","n","t">>, <<"a","u","m">>>>,
      <<<<"f","i","l","e">>>>,
      <<<<"z","z","z">>>>,
      <<<<"i","n","c",".">>>>,
      <<<<"r","e","v","e","n","u","e">>, <<"i","n","c",".">>>> }

\* the uploads of a run: up to MaxFiles workbooks, each given by its place in
\* Workbooks
FileLists == UNION {[1 .. n -> DOMAIN Workbooks] : n \in 1 .. MaxFiles}

(***************************************************************************)
(* The state: one ExcelConsolidator and the caller's position.             *)
(*   files, keywords, combined_df   the object's fields (a file is held by *)
(*                its place in Workbooks)                                  *)
(*   warnings     the file names st.warning was called with                *)
(*   pc, fi, si   where the caller is: the file and sheet read_excel_files *)
(*                is at (si = 0: the workbook is not open yet)             *)
(*   calls        the number of consolidate() calls begun                  *)
(*   search       the last smart_search call: its argument and result      *)
(*   pass         the current read_excel_files call: the table it started  *)
(*                from, what each sheet contributed, the files that raised *)
(*   results      the tables consolidate() returned, in order              *)
(*   report       what generate_insights returned or raised                *)
(***************************************************************************)
VARIABLES files, keywords, combined_df, warnings, pc, fi, si, calls,
          search, pass, results, report

vars == <<files, keywords, combined_df, warnings, pc, fi, si, calls,
          search, pass, results, report>>

File(i) == Workbooks[files[i]]

NoSearch == [called |-> FALSE, arg |-> EmptyFrame, ret |-> EmptyFrame]
NoReport == [status |-> "none", insights |-> <<>>, summary |-> <<>>]
NewPass(df) == [base |-> df, log |-> <<>>, failed |-> {}]

\* ExcelConsolidator(files, keywords)
Init ==
    /\ files \in FileLists
    /\ \E kws \in KeywordLists : keywords = init_keywords(kws)
    /\ combined_df = EmptyFrame
    /\ warnings = <<>>
    /\ pc = "new"
    /\ fi = 0
    /\ si = 0
    /\ calls = 0
    /\ search = NoSearch
    /\ pass = NewPass(EmptyFrame)
    /\ results = <<>>
    /\ report = NoReport

\* consolidate() is entered: read_excel_files starts at the first file
CallConsolidate ==
    /\ pc \in {"new", "returned", "reported"}
    /\ calls < MaxCalls
    /\ calls' = calls + 1
    /\ pc' = "read"
    /\ fi' = 1
    /\ si' = 0
    /\ pass' = NewPass(combined_df)
    /\ UNCHANGED <<files, keywords, combined_df, warnings, search, results, report>>

\* the except clause of read_excel_files: warn, go on with the next file
Except ==
    /\ warnings' = Append(warnings, File(fi).name)
    /\ pass' = [pass EXCEPT !.failed = @ \cup {fi}]
    /\ fi' = fi + 1
    /\ si' = 0

\* line 19 succeeds
OpenWorkbook ==
    /\ pc = "read" /\ fi <= Len(files) /\ si = 0
    /\ File(fi).opens
    /\ si' = 1
    /\ UNCHANGED <<files, keywords, combined_df, warnings, pc, fi, calls,
                   search, pass, results, report>>

\* line 19 raises
OpenWorkbookRaises ==
    /\ pc = "read" /\ fi <= Len(files) /\ si = 0
    /\ ~File(fi).opens
    /\ Except
    /\ UNCHANGED <<files, keywords, combined_df, pc, calls, search, results, report>>

\* lines 21-28 for one sheet, none of them raising
ReadSheet ==
    /\ pc = "read" /\ fi <= Len(files) /\ si >= 1
    /\ File(fi).sheets[si].parses
    /\ LET df == tagged(File(fi), File(fi).sheets[si])
           ret == smart_search(df, keywords)
           add == contribution(df, keywords)
           new == concat(combined_df, add)
       IN /\ new.ok
          /\ combined_df' = new.df
          /\ search' = [called |-> TRUE, arg |-> df, ret |-> ret]
          /\ pass' = [pass EXCEPT !.log = Append(@, [file |-> fi, sheet |-> si, ret |-> ret])]
    /\ IF si < Len(File(fi).sheets)
       THEN si' = si + 1 /\ fi' = fi
       ELSE si' = 0 /\ fi' = fi + 1
    /\ UNCHANGED <<files, keywords, warnings, pc, calls, results, report>>

\* line 21 raises
ParseRaises ==
    /\ pc = "read" /\ fi <= Len(files) /\ si >= 1
    /\ ~File(fi).sheets[si].parses
    /\ Except
    /\ UNCHANGED <<files, keywords, combined_df, pc, calls, search, results, report>>

\* pd.concat raises (line 26 or 28), after smart_search has returned
ConcatRaises ==
    /\ pc = "read" /\ fi <= Len(files) /\ si >= 1
    /\ File(fi).sheets[si].parses
    /\ LET df == tagged(File(fi), File(fi).sheets[si])
       IN /\ ~concat(combined_df, contribution(df, keywords)).ok
          /\ search' = [called |-> TRUE, arg |-> df, ret |-> smart_search(df, keywords)]
    /\ Except
    /\ UNCHANGED <<files, keywords, combined_df, pc, calls, results, report>>

\* read_excel_files returns
ReadDone ==
    /\ pc = "read" /\ fi > Len(files)
    /\ pc' = "clean"
    /\ UNCHANGED <<files, keywords, combined_df, warnings, fi, si, calls,
                   search, pass, results, report>>

\* line 62
CleanAndStandardize ==
    /\ pc = "clean"
    /\ combined_df' = clean_and_standardize(combined_df)
    /\ pc' = "dedupe"
    /\ UNCHANGED <<files, keywords, warnings, fi, si, calls, search, pass, results, report>>

\* lines 63-64: deduplicate, and consolidate() returns the table
Deduplicate ==
    /\ pc = "dedupe"
    /\ combined_df' = deduplicate(combined_df)
    /\ results' = Append(results, deduplicate(combined_df))
    /\ pc' = "returned"
    /\ UNCHANGED <<files, keywords, warnings, fi, si, calls, search, pass, report>>

\* main, line 139
GenerateInsights ==
    /\ pc = "returned"
    /\ \E top_rev \in TopRows(combined_df, n_revenue), top_aum \in TopRows(combined_df, n_aum) :
           report' = generate_insights(combined_df, top_rev, top_aum)
    /\ pc' = "reported"
    /\ UNCHANGED <<files, keywords, combined_df, warnings, fi, si, calls,
                   search, pass, results>>

Next ==
    \/ CallConsolidate
    \/ OpenWorkbook
    \/ OpenWorkbookRaises
    \/ ReadSheet
    \/ ParseRaises
    \/ ConcatRaises
    \/ ReadDone
    \/ CleanAndStandardize
    \/ Deduplicate
    \/ GenerateInsights

Spec == Init /\ [][Next]_vars

(***************************************************************************)
(* Properties.                                                             *)
(***************************************************************************)
\* the rows of df whose source_file cell names that file
RowsFrom(df, name) ==
    IF ~HasCol(df, n_source_file) THEN {}
    ELSE {r \in DOMAIN df.rows :
             \E k \in DOMAIN df.cols :
                 df.cols[k] = n_source_file /\ df.rows[r][k] = Txt(name)}

\* the specification's matching: the name, or the cell's string, contains a
\* keyword as a substring, ignoring case
NameMatches(col, kws) == \E t \in DOMAIN kws : Contains(lower(col), lower(kws[t]))
RowMatches(row, kws) ==
    \E j \in DOMAIN row, t \in DOMAIN kws :
        Contains(lower(cell_str(row[j])), lower(kws[t]))

\* the column names smart_search works with
SearchedCols == search_columns(search.arg.cols)

\* row r of frame b is row q of frame a, cut down to b's columns
SameRow(a, q, b, r) ==
    \A k \in DOMAIN b.cols :
        \E p \in DOMAIN a.cols : a.cols[p] = b.cols[k] /\ a.rows[q][p] = b.rows[r][k]

\* C1: when a file raises while it is read, a warning names it, the unified
\* table holds no row of that file, and every later file is still processed.
C1_FailedFileIsolated ==
    pc = "clean" =>
        \A i \in pass.failed :
            /\ \E w \in DOMAIN warnings : warnings[w] = File(i).name
            /\ RowsFrom(combined_df, File(i).name) = {}
            /\ \A j \in (i + 1) .. Len(files) :
                   j \in pass.failed \/ \E l \in DOMAIN pass.log : pass.log[l].file = j

\* C2: with keywords, when some column name contains a keyword, smart_search
\* returns exactly the matching columns plus source_file and sheet_name, and
\* exactly the rows holding a keyword, or every row when no row holds one.
C2_ColumnPriority ==
    (/\ search.called
     /\ keywords # <<>>
     /\ \E k \in DOMAIN SearchedCols : NameMatches(SearchedCols[k], keywords)) =>
        LET d == [search.arg EXCEPT !.cols = SearchedCols]
            hits == {q \in DOMAIN d.rows : RowMatches(d.rows[q], keywords)}
            want == IF hits # {} THEN hits ELSE DOMAIN d.rows
        IN /\ ColSet(search.ret) =
                  {c \in ColSet(d) : NameMatches(c, keywords)}
                      \cup (ColSet(d) \cap {n_source_file, n_sheet_name})
           /\ Len(search.ret.rows) = Cardinality(want)
           /\ \A r \in DOMAIN search.ret.rows :
                  LET q == CHOOSE x \in want : Cardinality({y \in want : y < x}) = r - 1
                  IN SameRow(d, q, search.ret, r)

\* C3: with keywords, when no column name and no row holds a keyword,
\* smart_search returns every row and every column of its argument.
C3_FallbackIsWholeTable ==
    (/\ search.called
     /\ keywords # <<>>
     /\ \A k \in DOMAIN SearchedCols : ~NameMatches(SearchedCols[k], keywords)
     /\ \A q \in DOMAIN search.arg.rows : ~RowMatches(search.arg.rows[q], keywords)) =>
        /\ search.ret.rows = search.arg.rows
        /\ Len(search.ret.cols) = Len(search.arg.cols)

\* C4: with no keywords smart_search returns its argument unchanged: the same
\* rows, the same columns, the same column names.
C4_NoKeywordsIdentity ==
    (search.called /\ keywords = <<>>) => search.ret = search.arg

\* C4 happens: a call without keywords on a sheet that has rows and a header
\* that line 36 would rename
C4_Witness ==
    /\ search.called /\ keywords = <<>>
    /\ search.arg.rows # <<>>
    /\ SearchedCols # search.arg.cols

AllNaN(row) == \A k \in DOMAIN row : row[k] = NaN

\* a name is lowercase, trimmed and without spaces
IsNormalized(name) ==
    /\ \A i \in DOMAIN name : ~IsUpper(name[i]) /\ name[i] # " "
    /\ name # <<>> => (name[1] \notin Whitespace /\ name[Len(name)] \notin Whitespace)

\* the rows read_excel_files has put into combined_df in this call
RECURSIVE LogRows(_)
LogRows(log) == IF log = <<>> THEN 0 ELSE Len(Head(log).ret.rows) + LogRows(Tail(log))

\* C5: the table consolidate returns has no row empty in all columns, no two
\* equal rows, and only lowercase, trimmed, underscored column names.
C5_CleanResult ==
    pc \in {"returned", "reported"} =>
        /\ results[Len(results)] = combined_df
        /\ \A r \in DOMAIN combined_df.rows : ~AllNaN(combined_df.rows[r])
        /\ \A r, q \in DOMAIN combined_df.rows :
               combined_df.rows[r] = combined_df.rows[q] => r = q
        /\ \A k \in DOMAIN combined_df.cols : IsNormalized(combined_df.cols[k])

\* C5 happens: without keywords, consolidate returned a table from which
\* equal rows were removed and whose sheets had headers that line 55 renamed
C5_Witness ==
    /\ pc = "returned" /\ keywords = <<>>
    /\ Len(combined_df.rows) < Len(pass.base.rows) + LogRows(pass.log)
    /\ combined_df.rows # <<>>
    /\ \E l \in DOMAIN pass.log :
           \E h \in DOMAIN File(pass.log[l].file).sheets[pass.log[l].sheet].header :
               ~IsNormalized(File(pass.log[l].file).sheets[pass.log[l].sheet].header[h])

\* C6: with a revenue or an aum column and no client_name column,
\* generate_insights returns its two lists.
C6_NoClientColumn ==
    (/\ pc = "reported"
     /\ HasCol(combined_df, n_revenue) \/ HasCol(combined_df, n_aum)
     /\ ~HasCol(combined_df, n_client_name)) =>
        report.status = "ok"

\* C7: a second consolidate() over the same readable files returns the table
\* the first one returned.
C7_FreshTablePerCall ==
    (Len(results) >= 2 /\ warnings = <<>>) =>
        \A c \in 2 .. Len(results) : results[c] = results[1]

\* C8: generate_insights returns for every consolidated table with no rows.
C8_EmptyResultReports ==
    (pc = "reported" /\ combined_df.rows = <<>>) => report.status = "ok"

\* the sheet a log entry is about, tagged
LogSheet(e) == tagged(File(e.file), File(e.file).sheets[e.sheet])

\* the first row of combined_df that log entry l filled
RECURSIVE FirstRow(_, _)
FirstRow(log, l) ==
    IF l = 1 THEN Len(pass.base.rows) + 1
    ELSE FirstRow(log, l - 1) + Len(log[l - 1].ret.rows)

\* the rows of the unified table are the rows it began with followed by the
\* rows smart_search returned, sheet after sheet, NaN in the columns a
\* result does not have
RowsAreResults ==
    /\ Len(combined_df.rows) = Len(pass.base.rows) + LogRows(pass.log)
    /\ \A l \in DOMAIN pass.log :
           \A r \in DOMAIN pass.log[l].ret.rows :
               LET row == combined_df.rows[FirstRow(pass.log, l) + r - 1]
               IN \A k \in DOMAIN combined_df.cols :
                      IF HasCol(pass.log[l].ret, combined_df.cols[k])
                      THEN \E p \in DOMAIN pass.log[l].ret.cols :
                               /\ pass.log[l].ret.cols[p] = combined_df.cols[k]
                               /\ pass.log[l].ret.rows[r][p] = row[k]
                      ELSE row[k] = NaN

\* C9 as claimed: after read_excel_files over files that all read, the
\* unified table is the concatenation of smart_search's results: its rows
\* are theirs, its columns are the union of theirs.
C9_ConcatOfResults ==
    (pc = "clean" /\ pass.failed = {}) =>
        /\ RowsAreResults
        /\ ColSet(combined_df) =
               ColSet(pass.base) \cup UNION {ColSet(pass.log[l].ret) : l \in DOMAIN pass.log}

\* C9 as amended: the same, except that a sheet without rows brings all of
\* its columns (under the names smart_search gave them), not only those
\* smart_search returned.
C9_ConcatOfResultsOrSheet ==
    (pc = "clean" /\ pass.failed = {}) =>
        /\ RowsAreResults
        /\ ColSet(combined_df) =
               ColSet(pass.base) \cup
               UNION {IF pass.log[l].ret.rows # <<>>
                      THEN ColSet(pass.log[l].ret)
                      ELSE IF keywords = <<>>
                           THEN ColSet(LogSheet(pass.log[l]))
                           ELSE {search_columns(<<c>>)[1] : c \in ColSet(LogSheet(pass.log[l]))}
                      : l \in DOMAIN pass.log}

\* C9 happens: every file read, two sheets at least, one of them filtered
\* to fewer rows and columns and one without rows whose header has a column
\* smart_search did not return
C9_Witness ==
    /\ pc = "clean" /\ pass.failed = {} /\ Len(pass.log) >= 2
    /\ \E l \in DOMAIN pass.log :
           /\ pass.log[l].ret.rows = <<>>
           /\ Len(pass.log[l].ret.cols) < Len(LogSheet(pass.log[l]).cols)
    /\ \E l \in DOMAIN pass.log :
           /\ pass.log[l].ret.rows # <<>>
           /\ Len(pass.log[l].ret.rows) < Len(LogSheet(pass.log[l]).rows)

\* C10: smart_search returns no column name twice, and the table consolidate
\* returns has no two columns of the same name.
C10_DistinctColumns ==
    /\ search.called => IsUnique(search.ret.cols)
    /\ pc \in {"returned", "reported"} => IsUnique(combined_df.cols)

====
